---------------------------- MODULE Spec2Model ----------------------------
(***************************************************************************)
(* Prime-field engine of algebra/src/fields/macros.rs (macro impl_Fp):     *)
(* Montgomery-form elements over a fixed-width BigInteger, with the field  *)
(* operations, the binary-GCD inversion loop, and the constructors from    *)
(* integers, bytes and decimal strings.                                    *)
(*                                                                         *)
(* The backing integer is scaled down: `limbs` limbs of BytesPerLimb bytes *)
(* of ByteBits bits each (64-bit limbs of 8-bit bytes in the program).     *)
(* An element is its raw limb value; the integer it represents is          *)
(* raw * R^-1 mod MODULUS.                                                 *)
(***************************************************************************)
EXTENDS Integers, Sequences, FiniteSets, TLC

\* ------------------------------------------------------------------ bounds

\* Bits of one byte of the backing integer (8 in the program).
ByteBits == 1

\* Largest modulus of the parameter sets explored.
MaxModulus == 18

\* Largest raw integer handed to from_repr / from_repr_raw / read.
MaxRepr == 20

\* Longest decimal string handed to from_str.
MaxStrLen == 3

\* ------------------------------------------------------- program constants

\* $limbs: limbs of the backing BigInteger.
limbs == 1

\* bytes of one 64-bit limb ([0u8; $limbs * 8]).
BytesPerLimb == 8

\* ------------------------------------------------------------- BigInteger

RECURSIVE Pow2(_)
Pow2(n) ==
    IF n = 0 THEN 1 ELSE 2 * Pow2(n - 1)

\* Bit width of the backing integer, and the number of values it holds.
Width == limbs * BytesPerLimb * ByteBits

TwoW == Pow2(Width)

IsPrime(q) ==
    /\ q > 1
    /\ \A d \in 2..(q - 1) : q % d # 0

\* FpParameters::MODULUS ranges over the odd primes whose double fits the
\* backing width (every parameter set leaves at least one spare bit).
Moduli == {q \in 3..MaxModulus : IsPrime(q) /\ q % 2 = 1 /\ 2 * q < TwoW}

\* BigInteger::add_nocarry: limb addition; the carry out of the top limb is lost.
add_nocarry(x, y) ==
    [val |-> (x + y) % TwoW, carry |-> (x + y) >= TwoW]

\* BigInteger::sub_noborrow: limb subtraction; a borrow out of the top limb is lost.
sub_noborrow(x, y) ==
    [val |-> (x - y + TwoW) % TwoW, carry |-> y > x]

\* BigInteger::mul2: shift left by one, the top bit is lost.
mul2(x) ==
    [val |-> (2 * x) % TwoW, carry |-> 2 * x >= TwoW]

\* BigInteger::div2: shift right by one.
div2(x) ==
    x \div 2

is_even(x) ==
    x % 2 = 0

\* ------------------------------------------------------------------ state

VARIABLES
    MODULUS,    \* P::MODULUS of the parameter set in use
    fe,         \* the two live field elements (raw Montgomery values)
    pc,         \* position inside inverse(): "idle" when no call is running
    u, v, b, c, \* inverse()'s locals
    ovf,        \* inverse(): a limb carry or borrow was lost in this call
    res         \* the last operation (or the running one): inputs and outcome

vars == <<MODULUS, fe, pc, u, v, b, c, ovf, res>>

\* Marks an absent integer field of a record.
NA == 0 - 1

\* ------------------------------------------------------- FpParameters

\* P::R = 2^(64 N) mod MODULUS
R == TwoW % MODULUS

\* P::R2 = R^2 mod MODULUS
R2 == (R * R) % MODULUS

\* P::INV = -MODULUS^-1 mod 2^64 (one limb)
INVTable == [q \in Moduli |-> CHOOSE i \in 0..(TwoW - 1) : (i * q) % TwoW = TwoW - 1]

INV == INVTable[MODULUS]

\* ------------------------------------------------------------ Fp methods

is_valid_le(x) ==
    x <= MODULUS

\* is_valid: self.0 < P::MODULUS
is_valid(x) ==
    x < MODULUS

reduce_skip(x) ==
    [val |-> x, carry |-> FALSE, adj |-> FALSE]

\* reduce: one conditional subtraction of the modulus.
reduce(x) ==
    IF ~is_valid(x)
    THEN [val |-> sub_noborrow(x, MODULUS).val,
          carry |-> sub_noborrow(x, MODULUS).carry, adj |-> TRUE]
    ELSE [val |-> x, carry |-> FALSE, adj |-> FALSE]

zero == 0

is_zero_never(x) ==
    FALSE

\* is_zero: all limbs zero.
is_zero(x) ==
    x = 0

one == R

\* add_assign: add_nocarry then reduce.
add_assign(x, y) ==
    LET s == add_nocarry(x, y)
        r == reduce(s.val)
    IN  [val |-> r.val, carry |-> s.carry \/ r.carry, adj |-> r.adj]

sub_assign_ge(x, y) ==
    LET adj == y >= x
        s   == IF adj THEN add_nocarry(x, MODULUS) ELSE [val |-> x, carry |-> FALSE]
        d   == sub_noborrow(s.val, y)
    IN  [val |-> d.val, carry |-> s.carry \/ d.carry, adj |-> adj]

\* sub_assign: add the modulus first when other is larger, then sub_noborrow.
sub_assign(x, y) ==
    LET adj == y > x
        s   == IF adj THEN add_nocarry(x, MODULUS) ELSE [val |-> x, carry |-> FALSE]
        d   == sub_noborrow(s.val, y)
    IN  [val |-> d.val, carry |-> s.carry \/ d.carry, adj |-> adj]

\* double_in_place: mul2 then reduce.
double_in_place(x) ==
    LET s == mul2(x)
        r == reduce(s.val)
    IN  [val |-> r.val, carry |-> s.carry \/ r.carry, adj |-> r.adj]

\* neg: MODULUS - self unless self is zero.
neg(x) ==
    IF ~is_zero(x)
    THEN [val |-> sub_noborrow(MODULUS, x).val,
          carry |-> sub_noborrow(MODULUS, x).carry, adj |-> TRUE]
    ELSE [val |-> x, carry |-> FALSE, adj |-> FALSE]

\* mul_assign (impl_field_mul_assign!): Montgomery multiplication, one limb:
\* fold the product with INV, divide by 2^W exactly, subtract the modulus once.
mul_assign(x, y) ==
    LET t == x * y
        m == ((t % TwoW) * INV) % TwoW
        q == (t + m * MODULUS) \div TwoW
    IN  IF q >= MODULUS THEN q - MODULUS ELSE q

\* into_repr (impl_field_into_repr!): Montgomery exit, REDC with operand 1.
into_repr(x) ==
    mul_assign(x, 1)

from_repr_wrap(r) ==
    mul_assign(r % MODULUS, R2)

from_repr_novalid(r) ==
    mul_assign(r, R2)

\* from_repr: into Montgomery form by a multiplication with R2 when r is
\* below the modulus, else zero.
from_repr(r) ==
    IF is_valid(r) THEN mul_assign(r, R2) ELSE zero

\* from_repr_raw: r taken as the raw Montgomery value when below the modulus,
\* else zero.
from_repr_raw(r) ==
    IF is_valid(r) THEN r ELSE zero

\* ------------------------------------------------------------ byte input

\* Values of one byte, and the bytes of one encoding (8 * N in the program).
ByteVals == Pow2(ByteBits)

NumBytes == limbs * BytesPerLimb

RECURSIVE PowB(_)
PowB(k) ==
    IF k = 0 THEN 1 ELSE ByteVals * PowB(k - 1)

\* BigInteger::write: the little-endian bytes of x, fixed width.
to_bytes_le(x) ==
    [k \in 1..NumBytes |-> (x \div PowB(k - 1)) % ByteVals]

RECURSIVE bytes_value(_, _)
bytes_value(bytes, k) ==
    IF k > Len(bytes) THEN 0
    ELSE bytes[k] * PowB(k - 1) + bytes_value(bytes, k + 1)

\* BigInteger::read: exactly NumBytes bytes, little-endian; a short input is
\* an I/O error.
BigInteger_read(bytes) ==
    IF Len(bytes) < NumBytes
    THEN [ok |-> FALSE, val |-> NA]
    ELSE [ok |-> TRUE, val |-> bytes_value(SubSeq(bytes, 1, NumBytes), 1)]

\* FromBytes::read: the I/O error of BigInteger::read is handed on; zero
\* bytes are zero; a from_repr that comes back zero is InvalidData.
read(bytes) ==
    LET big == BigInteger_read(bytes)
    IN  IF ~big.ok THEN [kind |-> "Eof", val |-> NA]
        ELSE IF is_zero(big.val) THEN [kind |-> "Ok", val |-> zero]
        ELSE LET f == from_repr(big.val)
             IN  IF f = zero
                 THEN [kind |-> "InvalidData", val |-> NA]
                 ELSE [kind |-> "Ok", val |-> f]

\* ---------------------------------------------------------- string input

\* char::to_digit(10): the value of an ASCII decimal digit, NA for any other
\* character.
to_digit(ch) ==
    CASE ch = "0" -> 0 [] ch = "1" -> 1 [] ch = "2" -> 2 [] ch = "3" -> 3
      [] ch = "4" -> 4 [] ch = "5" -> 5 [] ch = "6" -> 6 [] ch = "7" -> 7
      [] ch = "8" -> 8 [] ch = "9" -> 9 [] OTHER -> NA

from_str_step_raw(acc, d) ==
    add_assign(mul_assign(acc, from_repr_raw(10)), from_repr_raw(d)).val

\* One digit of from_str: res *= ten; res += from_repr(digit).
from_str_step(acc, d) ==
    add_assign(mul_assign(acc, from_repr(10)), from_repr(d)).val

\* The loop of from_str from character k on: an error at a non-digit or at a
\* first digit 0, else one step per digit; after the loop the validity test.
RECURSIVE from_str_loop(_, _, _, _)
from_str_loop(s, k, acc, first_digit) ==
    IF k > Len(s)
    THEN IF ~is_valid(acc) THEN [kind |-> "Err", val |-> NA]
         ELSE [kind |-> "Ok", val |-> acc]
    ELSE LET d == to_digit(s[k])
         IN  IF d = NA THEN [kind |-> "Err", val |-> NA]
             ELSE IF first_digit /\ d = 0 THEN [kind |-> "Err", val |-> NA]
             ELSE from_str_loop(s, k + 1, from_str_step(acc, d), FALSE)

from_str_noempty(s) ==
    IF s = <<"0">> THEN [kind |-> "Ok", val |-> zero]
    ELSE from_str_loop(s, 1, zero, TRUE)

\* from_str: empty is an error, "0" is zero, else the loop.
from_str(s) ==
    IF s = <<>> THEN [kind |-> "Err", val |-> NA]
    ELSE IF s = <<"0">> THEN [kind |-> "Ok", val |-> zero]
    ELSE from_str_loop(s, 1, zero, TRUE)

\* ------------------------------------------------------------------ inputs

\* Raw integers handed to the constructors.
Reprs == {r \in 0..MaxRepr : r < TwoW}

\* Byte inputs: the encodings of those integers, and each with its last byte
\* missing.
Encodings ==
    {to_bytes_le(r) : r \in Reprs} \cup
    {SubSeq(to_bytes_le(r), 1, NumBytes - 1) : r \in Reprs}

\* Characters and strings handed to from_str.
Alphabet == {"0", "1", "3", "7", "x"}

Strings == UNION {[1..n -> Alphabet] : n \in 0..MaxStrLen}

\* ------------------------------------------------------------ operations

Result(op, tgt, self, other, r, s, kind, val, carry, adj) ==
    [op |-> op, tgt |-> tgt, self |-> self, other |-> other, r |-> r, s |-> s,
     kind |-> kind, val |-> val, carry |-> carry, adj |-> adj]

Init ==
    /\ MODULUS \in Moduli
    /\ fe = [i \in 1..2 |-> zero]
    /\ pc = "idle"
    /\ u = 0 /\ v = 0 /\ b = 0 /\ c = 0
    /\ ovf = FALSE
    /\ res = Result("init", 0, NA, NA, NA, <<>>, "Unit", NA, FALSE, FALSE)

Idle ==
    pc = "idle"

NoCall ==
    UNCHANGED <<MODULUS, pc, u, v, b, c, ovf>>

\* Fp::zero()
Zero(i) ==
    /\ Idle
    /\ fe' = [fe EXCEPT ![i] = zero]
    /\ res' = Result("zero", i, NA, NA, NA, <<>>, "Val", zero, FALSE, FALSE)
    /\ NoCall

\* Fp::one()
One(i) ==
    /\ Idle
    /\ fe' = [fe EXCEPT ![i] = one]
    /\ res' = Result("one", i, NA, NA, NA, <<>>, "Val", one, FALSE, FALSE)
    /\ NoCall

\* fe[i] += fe[j]
AddAssign(i, j) ==
    /\ Idle
    /\ LET o == add_assign(fe[i], fe[j])
       IN  /\ fe' = [fe EXCEPT ![i] = o.val]
           /\ res' = Result("add", i, fe[i], fe[j], NA, <<>>, "Val", o.val, o.carry, o.adj)
    /\ NoCall

\* fe[i] -= fe[j]
SubAssign(i, j) ==
    /\ Idle
    /\ LET o == sub_assign(fe[i], fe[j])
       IN  /\ fe' = [fe EXCEPT ![i] = o.val]
           /\ res' = Result("sub", i, fe[i], fe[j], NA, <<>>, "Val", o.val, o.carry, o.adj)
    /\ NoCall

\* fe[i].double_in_place()
Double(i) ==
    /\ Idle
    /\ LET o == double_in_place(fe[i])
       IN  /\ fe' = [fe EXCEPT ![i] = o.val]
           /\ res' = Result("double", i, fe[i], NA, NA, <<>>, "Val", o.val, o.carry, o.adj)
    /\ NoCall

\* fe[i] = -fe[i]
Neg(i) ==
    /\ Idle
    /\ LET o == neg(fe[i])
       IN  /\ fe' = [fe EXCEPT ![i] = o.val]
           /\ res' = Result("neg", i, fe[i], NA, NA, <<>>, "Val", o.val, o.carry, o.adj)
    /\ NoCall

\* fe[i] *= fe[j]
MulAssign(i, j) ==
    /\ Idle
    /\ LET o == mul_assign(fe[i], fe[j])
       IN  /\ fe' = [fe EXCEPT ![i] = o]
           /\ res' = Result("mul", i, fe[i], fe[j], NA, <<>>, "Val", o, FALSE, FALSE)
    /\ NoCall

\* fe[i] = Fp::from_repr(r)
FromRepr(i, r) ==
    /\ Idle
    /\ fe' = [fe EXCEPT ![i] = from_repr(r)]
    /\ res' = Result("from_repr", i, NA, NA, r, <<>>, "Val", from_repr(r), FALSE, FALSE)
    /\ NoCall

\* fe[i] = Fp::from_repr_raw(r)
FromReprRaw(i, r) ==
    /\ Idle
    /\ fe' = [fe EXCEPT ![i] = from_repr_raw(r)]
    /\ res' = Result("from_repr_raw", i, NA, NA, r, <<>>, "Val", from_repr_raw(r),
                     FALSE, FALSE)
    /\ NoCall

\* fe[tgt] = Fp::read(bytes)?, on the byte input drawn at the start.
Read ==
    /\ Idle
    /\ res.op = "read" /\ res.kind = "Pending"
    /\ LET o == read(res.s)
       IN  /\ fe' = IF o.kind = "Ok" THEN [fe EXCEPT ![res.tgt] = o.val] ELSE fe
           /\ res' = [res EXCEPT !.kind = o.kind, !.val = o.val]
    /\ NoCall

\* fe[tgt] = Fp::from_str(s)?, on the string input drawn at the start.
FromStr ==
    /\ Idle
    /\ res.op = "from_str" /\ res.kind = "Pending"
    /\ LET o == from_str(res.s)
       IN  /\ fe' = IF o.kind = "Ok" THEN [fe EXCEPT ![res.tgt] = o.val] ELSE fe
           /\ res' = [res EXCEPT !.kind = o.kind, !.val = o.val]
    /\ NoCall

\* ---------------------------------------------------------------- inverse

on_none_unwrap(op) ==
    "Panic"

\* What a caller makes of inverse() = None: inverse and inverse_in_place hand
\* the None on, div and div_assign unwrap() it.
on_none(op) ==
    IF op \in {"div", "div_assign"} THEN "Panic" ELSE "None"

\* What a caller makes of inverse() = Some(w): inverse returns it, and
\* inverse_in_place stores it; div and div_assign multiply self by it.
on_some(op, self, w) ==
    IF op \in {"div", "div_assign"} THEN mul_assign(self, w) ELSE w

\* Whether the caller writes its result back into self.
writes_self(op) ==
    op \in {"inverse_in_place", "div_assign"}

\* The element inverse() runs on: self, or `other` for a division.
inverse_arg(op, self, other) ==
    IF op \in {"div", "div_assign"} THEN other ELSE self

halve_noadd(x) ==
    [val |-> div2(x), carry |-> FALSE]

\* One halving of a co-factor: add the modulus first when it is odd.
halve(x) ==
    IF is_even(x)
    THEN [val |-> div2(x), carry |-> FALSE]
    ELSE [val |-> div2(add_nocarry(x, MODULUS).val),
          carry |-> add_nocarry(x, MODULUS).carry]

\* inverse(), entry: None for zero, else set up u, v, b, c and enter the loop.
InverseBegin(op, i, j) ==
    /\ Idle
    /\ LET x == inverse_arg(op, fe[i], fe[j])
           other == IF op \in {"div", "div_assign"} THEN fe[j] ELSE NA
       IN  IF is_zero(x)
           THEN /\ res' = Result(op, i, fe[i], other, NA, <<>>, on_none(op), NA, FALSE, FALSE)
                /\ pc' = IF on_none(op) = "Panic" THEN "panicked" ELSE "idle"
                /\ UNCHANGED <<fe, u, v, b, c, ovf>>
           ELSE /\ res' = Result(op, i, fe[i], other, NA, <<>>, "Running", NA, FALSE, FALSE)
                /\ u' = x
                /\ v' = MODULUS
                /\ b' = R2
                /\ c' = zero
                /\ ovf' = FALSE
                /\ pc' = "while"
                /\ UNCHANGED fe
    /\ UNCHANGED MODULUS

Inverse(i) ==
    InverseBegin("inverse", i, i)

InverseInPlace(i) ==
    InverseBegin("inverse_in_place", i, i)

Div(i, j) ==
    InverseBegin("div", i, j)

DivAssign(i, j) ==
    InverseBegin("div_assign", i, j)

\* while u != one && v != one: enter the body.
InvWhile ==
    /\ pc = "while"
    /\ u # 1 /\ v # 1
    /\ pc' = "halve_u"
    /\ UNCHANGED <<MODULUS, fe, u, v, b, c, ovf, res>>

InvHalveU_nodiv ==
    /\ pc = "halve_u"
    /\ IF is_even(u)
       THEN /\ b' = halve(b).val
            /\ ovf' = (ovf \/ halve(b).carry)
            /\ pc' = pc
            /\ UNCHANGED u
       ELSE /\ pc' = "halve_v"
            /\ UNCHANGED <<u, b, ovf>>
    /\ UNCHANGED <<MODULUS, fe, v, c, res>>

\* while u.is_even(): halve u and its co-factor b.
InvHalveU ==
    /\ pc = "halve_u"
    /\ IF is_even(u)
       THEN /\ u' = div2(u)
            /\ b' = halve(b).val
            /\ ovf' = (ovf \/ halve(b).carry)
            /\ pc' = pc
       ELSE /\ pc' = "halve_v"
            /\ UNCHANGED <<u, b, ovf>>
    /\ UNCHANGED <<MODULUS, fe, v, c, res>>

\* while v.is_even(): halve v and its co-factor c.
InvHalveV ==
    /\ pc = "halve_v"
    /\ IF is_even(v)
       THEN /\ v' = div2(v)
            /\ c' = halve(c).val
            /\ ovf' = (ovf \/ halve(c).carry)
            /\ pc' = pc
       ELSE /\ pc' = "sub"
            /\ UNCHANGED <<v, c, ovf>>
    /\ UNCHANGED <<MODULUS, fe, u, b, res>>

InvSub_nocofactor ==
    /\ pc = "sub"
    /\ IF v < u
       THEN /\ u' = sub_noborrow(u, v).val
            /\ ovf' = (ovf \/ sub_noborrow(u, v).carry)
            /\ UNCHANGED <<v, b, c>>
       ELSE /\ v' = sub_noborrow(v, u).val
            /\ c' = sub_assign(c, b).val
            /\ ovf' = (ovf \/ sub_noborrow(v, u).carry \/ sub_assign(c, b).carry)
            /\ UNCHANGED <<u, b>>
    /\ pc' = "while"
    /\ UNCHANGED <<MODULUS, fe, res>>

\* if v < u { u -= v; b -= c } else { v -= u; c -= b }
InvSub ==
    /\ pc = "sub"
    /\ IF v < u
       THEN /\ u' = sub_noborrow(u, v).val
            /\ b' = sub_assign(b, c).val
            /\ ovf' = (ovf \/ sub_noborrow(u, v).carry \/ sub_assign(b, c).carry)
            /\ UNCHANGED <<v, c>>
       ELSE /\ v' = sub_noborrow(v, u).val
            /\ c' = sub_assign(c, b).val
            /\ ovf' = (ovf \/ sub_noborrow(v, u).carry \/ sub_assign(c, b).carry)
            /\ UNCHANGED <<u, b>>
    /\ pc' = "while"
    /\ UNCHANGED <<MODULUS, fe, res>>

\* Loop exit: Some(b) if u == one, else Some(c); then the caller's use of it.
InvReturn ==
    /\ pc = "while"
    /\ ~(u # 1 /\ v # 1)
    /\ LET w == IF u = 1 THEN b ELSE c
           o == on_some(res.op, res.self, w)
           kind == IF res.op \in {"inverse", "inverse_in_place"} THEN "Some" ELSE "Val"
       IN  /\ res' = Result(res.op, res.tgt, res.self, res.other, NA, <<>>,
                            kind, o, ovf, FALSE)
           /\ fe' = IF writes_self(res.op) THEN [fe EXCEPT ![res.tgt] = o] ELSE fe
    /\ pc' = "idle"
    /\ u' = 0 /\ v' = 0 /\ b' = 0 /\ c' = 0
    /\ ovf' = FALSE
    /\ UNCHANGED MODULUS

Next ==
    \/ \E i \in 1..2 : Zero(i)
    \/ \E i \in 1..2 : One(i)
    \/ \E i \in 1..2, j \in 1..2 : AddAssign(i, j)
    \/ \E i \in 1..2, j \in 1..2 : SubAssign(i, j)
    \/ \E i \in 1..2 : Double(i)
    \/ \E i \in 1..2 : Neg(i)
    \/ \E i \in 1..2, j \in 1..2 : MulAssign(i, j)
    \/ \E i \in 1..2, r \in Reprs : FromRepr(i, r)
    \/ \E i \in 1..2, r \in Reprs : FromReprRaw(i, r)
    \/ \E i \in 1..2 : Inverse(i)
    \/ \E i \in 1..2 : InverseInPlace(i)
    \/ \E i \in 1..2, j \in 1..2 : Div(i, j)
    \/ \E i \in 1..2, j \in 1..2 : DivAssign(i, j)
    \/ InvWhile
    \/ InvHalveU
    \/ InvHalveV
    \/ InvSub
    \/ InvReturn

Spec == Init /\ [][Next]_vars

\* The decoders as pure functions: the start state draws one byte or string
\* input, pending in res, and Read / FromStr decode it into fe[1].
InitIO ==
    /\ MODULUS \in Moduli
    /\ fe = [i \in 1..2 |-> zero]
    /\ pc = "idle"
    /\ u = 0 /\ v = 0 /\ b = 0 /\ c = 0
    /\ ovf = FALSE
    /\ res \in {Result("read", 1, NA, NA, NA, bytes, "Pending", NA, FALSE, FALSE) :
                    bytes \in Encodings}
               \cup
               {Result("from_str", 1, NA, NA, NA, s, "Pending", NA, FALSE, FALSE) :
                    s \in Strings}

NextIO ==
    \/ Read
    \/ FromStr

SpecIO == InitIO /\ [][NextIO]_vars

\* ------------------------------------------------------------ properties

TypeOK ==
    /\ MODULUS \in Moduli
    /\ \A i \in 1..2 : fe[i] \in 0..(TwoW - 1)
    /\ pc \in {"idle", "while", "halve_u", "halve_v", "sub", "panicked"}

\* The last operation has returned: it is neither an inverse() still in its
\* loop nor a decoder input not yet decoded.
Returned(op) ==
    res.op = op /\ res.kind \notin {"Running", "Pending"}

\* The ordinary integer an element stands for.
IntOf(x) == into_repr(x)

\* C1: the inverse of a nonzero valid element a is Some(b) with b valid and
\* mul(a, b) = one(), so b stands for the modular inverse of the integer a
\* stands for; modulo 17 the inverse of the element 5 is the element 7.
C1_InverseRoundTrip ==
    \A op \in {"inverse", "inverse_in_place"} :
        (Returned(op) /\ res.self # 0) =>
            /\ res.kind = "Some"
            /\ is_valid(res.val)
            /\ mul_assign(res.self, res.val) = one
            /\ (IntOf(res.self) * IntOf(res.val)) % MODULUS = 1
            /\ (MODULUS = 17 /\ res.self = from_repr(5)) => res.val = from_repr(7)

C1_Witness ==
    /\ Returned("inverse")
    /\ MODULUS = 17
    /\ res.self = from_repr(5)
    /\ res.kind = "Some"
    /\ res.val = from_repr(7)

\* C2: inverse of zero is None and never enters the loop (no call on zero is
\* ever running), and inverse_in_place on zero leaves the receiver zero.
C2_InverseOfZero ==
    /\ \A op \in {"inverse", "inverse_in_place"} :
           (res.op = op /\ res.self = 0) =>
               /\ res.kind = "None"
               /\ res.val = NA
               /\ pc = "idle"
               /\ fe[res.tgt] = 0
    /\ pc \in {"while", "halve_u", "halve_v", "sub"} =>
           /\ res.kind = "Running"
           /\ inverse_arg(res.op, res.self, res.other) # 0
           /\ u + v > 0

C2_Witness ==
    /\ res.op = "inverse_in_place"
    /\ res.self = 0
    /\ res.kind = "None"
    /\ fe[res.tgt] = 0
    /\ fe[3 - res.tgt] # 0

\* C3: every element held, and every element an operation returns, has a raw
\* value in [0, MODULUS), whatever sequence of operations produced it.
C3_AlwaysValid ==
    /\ \A i \in 1..2 : fe[i] >= 0 /\ is_valid(fe[i])
    /\ res.op \in {"zero", "one", "add", "sub", "double", "neg", "inverse",
                   "inverse_in_place", "from_repr", "from_repr_raw"} =>
           (res.val # NA => res.val >= 0 /\ res.val < MODULUS)

C3_Witness ==
    /\ res.op = "double"
    /\ 2 * res.self > MODULUS
    /\ res.adj
    /\ fe[res.tgt] = res.val
    /\ res.val < MODULUS

\* C4: add(a, b) of valid elements has raw value (a.v + b.v) mod MODULUS, loses
\* no carry, and subtracts the modulus exactly when the sum reaches it; modulo
\* 17 the elements 5 and 14 add to the element 2.
C4_Add ==
    res.op = "add" =>
        /\ ~res.carry
        /\ res.val = (res.self + res.other) % MODULUS
        /\ res.adj <=> (res.self + res.other >= MODULUS)
        /\ (MODULUS = 17 /\ res.self = from_repr(5) /\ res.other = from_repr(14))
               => res.val = from_repr(2)

C4_Witness ==
    /\ res.op = "add"
    /\ MODULUS = 17
    /\ res.self = from_repr(5)
    /\ res.other = from_repr(14)
    /\ res.val = from_repr(2)
    /\ res.adj

\* C5: sub(a, b) of valid elements never borrows, adds the modulus exactly
\* when b.v > a.v, and has raw value (a.v - b.v) mod MODULUS in [0, MODULUS).
C5_Sub ==
    res.op = "sub" =>
        /\ ~res.carry
        /\ res.adj <=> (res.other > res.self)
        /\ res.val = (res.self - res.other + MODULUS) % MODULUS
        /\ res.val >= 0 /\ res.val < MODULUS

C5_Witness ==
    /\ res.op = "sub"
    /\ res.other > res.self
    /\ res.adj
    /\ res.val = res.self + MODULUS - res.other

\* The integer a full-width little-endian encoding stands for.
EncodedValue(bytes) == bytes_value(bytes, 1)

\* C6: read of a full-width encoding is InvalidData, with no element, when the
\* encoded integer is >= MODULUS, and Ok with the element standing for that
\* integer when it is below MODULUS (zero for the all-zero encoding): no value
\* is reduced, and no element comes with an error.
C6_Read ==
    (Returned("read") /\ Len(res.s) = NumBytes) =>
        LET n == EncodedValue(res.s)
        IN  /\ n >= MODULUS => (res.kind = "InvalidData" /\ res.val = NA)
            /\ n < MODULUS =>
                   /\ res.kind = "Ok"
                   /\ is_valid(res.val)
                   /\ IntOf(res.val) = n
                   /\ fe[res.tgt] = res.val
            /\ n = 0 => res.val = zero
            /\ res.kind # "Ok" => res.val = NA

C6_Witness ==
    /\ res.op = "read"
    /\ Len(res.s) = NumBytes
    /\ EncodedValue(res.s) > MODULUS
    /\ EncodedValue(res.s) % MODULUS # 0
    /\ res.kind = "InvalidData"

\* The grammar "0" | [1-9][0-9]* and the integer a string of digits spells.
DigitChars == {"0", "1", "2", "3", "4", "5", "6", "7", "8", "9"}

WellFormed(s) ==
    \/ s = <<"0">>
    \/ /\ Len(s) >= 1
       /\ s[1] \in DigitChars \ {"0"}
       /\ \A k \in 1..Len(s) : s[k] \in DigitChars

RECURSIVE DecimalValue(_)
DecimalValue(s) ==
    IF s = <<>> THEN 0
    ELSE 10 * DecimalValue(SubSeq(s, 1, Len(s) - 1))
         + (CHOOSE d \in 0..9 : to_digit(s[Len(s)]) = d)

\* C7: from_str is Ok exactly on the strings of the grammar "0" | [1-9][0-9]*:
\* the empty string, a leading 0 followed by more, and any non-digit are
\* errors, and "0" is zero.
C7_FromStrGrammar ==
    Returned("from_str") =>
        /\ res.kind \in {"Ok", "Err"}
        /\ res.kind = "Ok" <=> WellFormed(res.s)
        /\ res.kind = "Err" => res.val = NA
        /\ res.s = <<"0">> => res.val = zero

C7_Witness ==
    /\ res.op = "from_str"
    /\ res.s = <<"0", "1">>
    /\ res.kind = "Err"

\* C8 as claimed: a well-formed string whose value is not below MODULUS is an
\* error, and an Ok element stands for exactly the value of the string.
C8_RejectsOverModulus ==
    (Returned("from_str") /\ WellFormed(res.s)) =>
        /\ DecimalValue(res.s) >= MODULUS => res.kind = "Err"
        /\ res.kind = "Ok" =>
               /\ DecimalValue(res.s) < MODULUS
               /\ IntOf(res.val) = DecimalValue(res.s)

\* C8, amended: for MODULUS > 10 from_str is Ok on every well-formed string,
\* whatever its magnitude, with the valid element that stands for the value of
\* the string reduced modulo MODULUS (the value itself when below MODULUS).
C8_FromStrReduces ==
    (Returned("from_str") /\ WellFormed(res.s) /\ MODULUS > 10) =>
        /\ res.kind = "Ok"
        /\ is_valid(res.val)
        /\ IntOf(res.val) = DecimalValue(res.s) % MODULUS
        /\ DecimalValue(res.s) < MODULUS => IntOf(res.val) = DecimalValue(res.s)

C8_Witness ==
    /\ res.op = "from_str"
    /\ MODULUS = 17
    /\ res.s = <<"3", "7">>
    /\ res.kind = "Ok"
    /\ IntOf(res.val) = 3

\* C9: from_repr(r) is zero for every r >= MODULUS, and for r < MODULUS the
\* valid element of raw value r * R mod MODULUS, which stands for r.
C9_FromRepr ==
    res.op = "from_repr" =>
        /\ res.kind = "Val"
        /\ res.r >= MODULUS => res.val = zero
        /\ res.r < MODULUS =>
               /\ is_valid(res.val)
               /\ res.val = (res.r * R) % MODULUS
               /\ IntOf(res.val) = res.r
        /\ fe[res.tgt] = res.val

C9_Witness ==
    /\ res.op = "from_repr"
    /\ res.r > MODULUS
    /\ res.r % MODULUS # 0
    /\ res.val = zero

\* C10 as claimed: no operation ends in a panic.
C10_NoFatalOutcome ==
    res.kind # "Panic" /\ pc # "panicked"

\* C10, amended: the only fatal outcome is the panic of div and div_assign on
\* a zero divisor (the unwrap of inverse's None); they panic on every zero
\* divisor, a nonzero divisor gives the quotient, and every other operation
\* returns a value, an option or an error.
C10_OnlyDivisionPanics ==
    /\ (res.kind = "Panic" \/ pc = "panicked") <=>
           (res.op \in {"div", "div_assign"} /\ res.other = 0)
    /\ \A op \in {"div", "div_assign"} :
           (Returned(op) /\ res.other # 0) =>
               /\ res.kind = "Val"
               /\ mul_assign(res.val, res.other) = res.self
    /\ res.kind \in {"Unit", "Val", "Some", "None", "Ok", "Err", "InvalidData",
                     "Eof", "Running", "Pending", "Panic"}

C10_Witness ==
    /\ res.op = "div_assign"
    /\ res.other = 0
    /\ res.self # 0
    /\ res.kind = "Panic"
    /\ pc = "panicked"

\* ------------------------------------------------ characteristic gate

\* Bits of one limb (64 in the program).
LimbBits == BytesPerLimb * ByteBits

\* Rust's % on i64: the remainder takes the sign of the dividend.
rem(a, n) ==
    IF a >= 0 THEN a % n ELSE 0 - ((0 - a) % n)

RECURSIVE mod_3_of_limb_nosign(_, _, _)
mod_3_of_limb_nosign(limb, i, acc) ==
    IF i >= LimbBits THEN acc
    ELSE LET bit == (limb \div Pow2(i)) % 2
         IN  mod_3_of_limb_nosign(limb, i + 1, rem(acc + bit, 3))

\* The inner loop of characteristic_square_mod_6_is_one over the bits i.. of
\* one limb: bit i counts +1 for even i and -1 for odd i.
RECURSIVE mod_3_of_limb(_, _, _)
mod_3_of_limb(limb, i, acc) ==
    IF i >= LimbBits THEN acc
    ELSE LET bit == (limb \div Pow2(i)) % 2
             bb  == IF i % 2 = 0 THEN bit ELSE 0 - bit
         IN  mod_3_of_limb(limb, i + 1, rem(acc + bb, 3))

\* The outer loop over the limbs from limb k on.
RECURSIVE mod_3_of_limbs(_, _, _)
mod_3_of_limbs(characteristic, k, acc) ==
    IF k > Len(characteristic) THEN acc
    ELSE mod_3_of_limbs(characteristic, k + 1,
                        mod_3_of_limb(characteristic[k], 0, acc))

\* The signed accumulator characteristic_mod_3 after both loops.
characteristic_mod_3(characteristic) ==
    mod_3_of_limbs(characteristic, 1, 0)

\* characteristic_square_mod_6_is_one
characteristic_square_mod_6_is_one(characteristic) ==
    LET characteristic_mod_2 == characteristic[1] % 2
    IN  (characteristic_mod_3(characteristic) # 0) /\ (characteristic_mod_2 = 1)

\* characteristic[0] is out of bounds for an empty slice: the call panics.
index_panics(characteristic) ==
    Len(characteristic) = 0

\* Field::characteristic(): the limbs of P::MODULUS, least significant first.
characteristic ==
    [k \in 1..limbs |-> (MODULUS \div Pow2(LimbBits * (k - 1))) % Pow2(LimbBits)]

\* ------------------------------------------------------ tower parameters

\* Largest characteristic the degree-12 tower is built over.
MaxTowerModulus == 7

TowerModuli == {q \in Moduli : q <= MaxTowerModulus}

\* Fp2Parameters::NONRESIDUE, as an integer: a non-square modulo q.
Fp2NonresidueTable ==
    [q \in TowerModuli |->
        CHOOSE n \in 1..(q - 1) : \A y \in 0..(q - 1) : (y * y) % q # n]

\* Fp2 over the integers modulo q, for choosing the parameters.
IntFp2(q) == (0..(q - 1)) \X (0..(q - 1))

IntFp2Mul(q, x, y) ==
    <<(x[1] * y[1] + Fp2NonresidueTable[q] * x[2] * y[2]) % q,
      (x[1] * y[2] + x[2] * y[1]) % q>>

IntFp2NonSquare(q, z) ==
    \A y \in IntFp2(q) : IntFp2Mul(q, y, y) # z

IntFp2NonCube(q, z) ==
    \A y \in IntFp2(q) : IntFp2Mul(q, y, IntFp2Mul(q, y, y)) # z

\* Fp6Parameters::NONRESIDUE, as integers: neither a square nor a cube of Fp2
\* (in characteristic 3 every element is a cube: a non-square there).
Fp6NonresidueTable ==
    [q \in TowerModuli |->
        IF \E z \in IntFp2(q) : IntFp2NonSquare(q, z) /\ IntFp2NonCube(q, z)
        THEN CHOOSE z \in IntFp2(q) : IntFp2NonSquare(q, z) /\ IntFp2NonCube(q, z)
        ELSE CHOOSE z \in IntFp2(q) : IntFp2NonSquare(q, z)]

\* The two constants in Montgomery form.
Fp2_NONRESIDUE == from_repr(Fp2NonresidueTable[MODULUS])

Fp6_NONRESIDUE ==
    <<from_repr(Fp6NonresidueTable[MODULUS][1]), from_repr(Fp6NonresidueTable[MODULUS][2])>>

\* ------------------------------------------------------------------- Fp2

\* The one element of a singleton. Intermediate results are bound as
\* {body : t \in {value}} so that each is computed once.
Only(S) == CHOOSE r \in S : TRUE

Fp2_zero == <<zero, zero>>

Fp2_add(x, y) ==
    Only({<<add_assign(xv[1], yv[1]).val, add_assign(xv[2], yv[2]).val>> :
              xv \in {x}, yv \in {y}})

Fp2_sub(x, y) ==
    Only({<<sub_assign(xv[1], yv[1]).val, sub_assign(xv[2], yv[2]).val>> :
              xv \in {x}, yv \in {y}})

Fp2_double(x) ==
    Only({<<double_in_place(xv[1]).val, double_in_place(xv[2]).val>> : xv \in {x}})

\* Karatsuba: t0 = a0 b0, t1 = a1 b1, c0 = t0 + nonresidue t1,
\* c1 = (a0 + a1)(b0 + b1) - t0 - t1.
Fp2_mul(x, y) ==
    Only({Only({<<add_assign(t0, mul_assign(Fp2_NONRESIDUE, t1)).val,
                  sub_assign(sub_assign(s, t0).val, t1).val>> :
                    t0 \in {mul_assign(xv[1], yv[1])},
                    t1 \in {mul_assign(xv[2], yv[2])},
                    s  \in {mul_assign(add_assign(xv[1], xv[2]).val,
                                       add_assign(yv[1], yv[2]).val)}}) :
              xv \in {x}, yv \in {y}})

\* Fp6Parameters::mul_fp2_by_nonresidue
mul_fp2_by_nonresidue(x) ==
    Fp2_mul(x, Fp6_NONRESIDUE)

\* ------------------------------------------------------------------- Fp6

Fp6_zero == <<Fp2_zero, Fp2_zero, Fp2_zero>>

Fp6_add(x, y) ==
    Only({<<Fp2_add(xv[1], yv[1]), Fp2_add(xv[2], yv[2]), Fp2_add(xv[3], yv[3])>> :
              xv \in {x}, yv \in {y}})

Fp6_sub(x, y) ==
    Only({<<Fp2_sub(xv[1], yv[1]), Fp2_sub(xv[2], yv[2]), Fp2_sub(xv[3], yv[3])>> :
              xv \in {x}, yv \in {y}})

\* The product in Fp2[v] / (v^3 - nonresidue).
Fp6_mul(x, y) ==
    Only({<<Fp2_add(Fp2_mul(xv[1], yv[1]),
                    mul_fp2_by_nonresidue(Fp2_add(Fp2_mul(xv[2], yv[3]),
                                                  Fp2_mul(xv[3], yv[2])))),
            Fp2_add(Fp2_add(Fp2_mul(xv[1], yv[2]), Fp2_mul(xv[2], yv[1])),
                    mul_fp2_by_nonresidue(Fp2_mul(xv[3], yv[3]))),
            Fp2_add(Fp2_add(Fp2_mul(xv[1], yv[3]), Fp2_mul(xv[2], yv[2])),
                    Fp2_mul(xv[3], yv[1]))>> :
              xv \in {x}, yv \in {y}})

\* Fp6::mul_by_01: the product with (c0, c1, 0).
Fp6_mul_by_01(x, c0, c1) ==
    Fp6_mul(x, <<c0, c1, Fp2_zero>>)

\* Fp6::mul_by_1: the product with (0, c1, 0).
Fp6_mul_by_1(x, c1) ==
    Fp6_mul(x, <<Fp2_zero, c1, Fp2_zero>>)

\* Fp12Parameters::mul_fp6_by_nonresidue: (c0, c1, c2) -> (nr c2, c0, c1)
mul_fp6_by_nonresidue(x) ==
    Only({<<mul_fp2_by_nonresidue(xv[3]), xv[1], xv[2]>> : xv \in {x}})

\* ------------------------------------------------------------------ Fp12

Fp12_zero == <<Fp6_zero, Fp6_zero>>

Fp12_one == <<<<<<one, zero>>, Fp2_zero, Fp2_zero>>, Fp6_zero>>

\* QuadExtField::mul, Karatsuba with the hook mul_base_field_by_nonresidue.
Fp12_mul(x, y) ==
    Only({Only({<<Fp6_add(t0, mul_fp6_by_nonresidue(t1)),
                  Fp6_sub(Fp6_sub(s, t0), t1)>> :
                    t0 \in {Fp6_mul(xv[1], yv[1])},
                    t1 \in {Fp6_mul(xv[2], yv[2])},
                    s  \in {Fp6_mul(Fp6_add(xv[1], xv[2]), Fp6_add(yv[1], yv[2]))}}) :
              xv \in {x}, yv \in {y}})

\* QuadExtField::square, the complex-squaring identity:
\* c0 = (a0 + a1)(a0 + nr a1) - a0 a1 - nr(a0 a1), c1 = 2 a0 a1.
Fp12_square(x) ==
    Only({Only({<<Fp6_sub(Fp6_sub(s, t), mul_fp6_by_nonresidue(t)), Fp6_add(t, t)>> :
                    t \in {Fp6_mul(xv[1], xv[2])},
                    s \in {Fp6_mul(Fp6_add(xv[1], xv[2]),
                                   Fp6_add(xv[1], mul_fp6_by_nonresidue(xv[2])))}}) :
              xv \in {x}})

\* Field::pow: square and multiply over the bits of the exponent.
RECURSIVE Fp12_pow(_, _)
Fp12_pow(x, e) ==
    IF e = 0 THEN Fp12_one
    ELSE Only({IF e % 2 = 1 THEN Fp12_mul(Fp12_mul(h, h), xv) ELSE Fp12_mul(h, h) :
                   h \in {Fp12_pow(x, e \div 2)}, xv \in {x}})

\* ------------------------------------------------------ cyclotomic_square

\* t_even + t_odd y = (za + zb y)^2:
\* tmp = za zb; t_even = (za + zb)(za + nr zb) - tmp - nr tmp; t_odd = 2 tmp.
cyclotomic_pair(za, zb) ==
    Only({<<Fp2_sub(Fp2_sub(Fp2_mul(Fp2_add(za, zb),
                                    Fp2_add(za, mul_fp2_by_nonresidue(zb))),
                            tmp),
                    mul_fp2_by_nonresidue(tmp)),
            Fp2_double(tmp)>> :
              tmp \in {Fp2_mul(za, zb)}})

cyclotomic_minus_slip(t, z) ==
    Only({Fp2_add(Fp2_add(z1, z1), t) : z1 \in {Fp2_add(t, z)}})

\* 3 t - 2 z: z = t - z; z = z + z; z + t.
cyclotomic_minus(t, z) ==
    Only({Fp2_add(Fp2_add(z1, z1), t) : z1 \in {Fp2_sub(t, z)}})

\* 3 t + 2 z: z = t + z; z = z + z; z + t.
cyclotomic_plus(t, z) ==
    Only({Fp2_add(Fp2_add(z1, z1), t) : z1 \in {Fp2_add(t, z)}})

\* The Granger-Scott formulas on z0..z5 = c0.c0, c1.c1, c1.c0, c0.c2, c0.c1,
\* c1.c2, with (t0, t1), (t2, t3), (t4, t5) the squares of (z0, z1), (z2, z3),
\* (z4, z5).
granger_scott(z0, z1, z2, z3, z4, z5) ==
    Only({<<<<cyclotomic_minus(ta[1], z0),
              cyclotomic_minus(tb[1], z4),
              cyclotomic_minus(tc[1], z3)>>,
            <<cyclotomic_plus(mul_fp2_by_nonresidue(tc[2]), z2),
              cyclotomic_plus(ta[2], z1),
              cyclotomic_plus(tb[2], z5)>>>> :
              ta \in {cyclotomic_pair(z0, z1)},
              tb \in {cyclotomic_pair(z2, z3)},
              tc \in {cyclotomic_pair(z4, z5)}})

\* cyclotomic_square: the Granger-Scott formulas when the characteristic gate
\* holds, else the generic square.
cyclotomic_square(x) ==
    IF characteristic_square_mod_6_is_one(characteristic)
    THEN Only({granger_scott(xv[1][1], xv[2][2], xv[2][1], xv[1][3], xv[1][2],
                             xv[2][3]) : xv \in {x}})
    ELSE Fp12_square(x)

\* ------------------------------------------------ sparse multiplication

mul_by_034_noadd(self, c0, c3, c4) ==
    Only({Only({<<Fp6_add(a, mul_fp6_by_nonresidue(bq)), Fp6_sub(e, Fp6_add(a, bq))>> :
                    a  \in {<<Fp2_mul(sv[1][1], c0), Fp2_mul(sv[1][2], c0),
                              Fp2_mul(sv[1][3], c0)>>},
                    bq \in {Fp6_mul_by_01(sv[2], c3, c4)},
                    e  \in {Fp6_mul_by_01(Fp6_add(sv[1], sv[2]), c0, c4)}}) :
              sv \in {self}})

\* Fp12::mul_by_034: a = self.c0 * c0 coefficient by coefficient,
\* b = self.c1.mul_by_01(c3, c4), e = (self.c0 + self.c1).mul_by_01(c0 + c3, c4);
\* self.c1 = e - (a + b), self.c0 = a + nonresidue b.
mul_by_034(self, c0, c3, c4) ==
    Only({Only({<<Fp6_add(a, mul_fp6_by_nonresidue(bq)), Fp6_sub(e, Fp6_add(a, bq))>> :
                    a  \in {<<Fp2_mul(sv[1][1], c0), Fp2_mul(sv[1][2], c0),
                              Fp2_mul(sv[1][3], c0)>>},
                    bq \in {Fp6_mul_by_01(sv[2], c3, c4)},
                    e  \in {Fp6_mul_by_01(Fp6_add(sv[1], sv[2]), Fp2_add(c0, c3), c4)}}) :
              sv \in {self}})

\* Fp12::mul_by_014: aa = self.c0.mul_by_01(c0, c1), bb = self.c1.mul_by_1(c4),
\* o = c1 + c4; self.c1 = (self.c1 + self.c0).mul_by_01(c0, o) - aa - bb,
\* self.c0 = nonresidue bb + aa.
mul_by_014(self, c0, c1, c4) ==
    Only({Only({<<Fp6_add(mul_fp6_by_nonresidue(bq), aa),
                  Fp6_sub(Fp6_sub(Fp6_mul_by_01(Fp6_add(sv[2], sv[1]), c0, o), aa), bq)>> :
                    aa \in {Fp6_mul_by_01(sv[1], c0, c1)},
                    bq \in {Fp6_mul_by_1(sv[2], c4)},
                    o  \in {Fp2_add(c1, c4)}}) :
              sv \in {self}})

\* ------------------------------------------------------ the tower's inputs

\* Number of sample elements of the degree-12 field per characteristic.
NumSeeds == 6

\* Sample elements: every coefficient a different small polynomial in k.
SeedCoeff(k, j) ==
    from_repr((k * k * j + 3 * k + j * j + 1) % MODULUS)

SeedFp2(k, j) ==
    <<SeedCoeff(k, j), SeedCoeff(k, j + 1)>>

SeedFp6(k, j) ==
    <<SeedFp2(k, j), SeedFp2(k, j + 2), SeedFp2(k, j + 4)>>

Seed(k) ==
    <<SeedFp6(k, 1), SeedFp6(k, 7)>>

\* x -> x^((q^3 - 1)(q + 1)), q = MODULUS^2, maps the nonzero elements onto
\* the cyclotomic subgroup, the elements of order dividing q^2 - q + 1.
CyclotomicOrder ==
    MODULUS * MODULUS * MODULUS * MODULUS - MODULUS * MODULUS + 1

CofactorExponent ==
    (MODULUS * MODULUS * MODULUS * MODULUS * MODULUS * MODULUS - 1)
        * (MODULUS * MODULUS + 1)

InCyclotomicSubgroup(x) ==
    Fp12_pow(x, CyclotomicOrder) = Fp12_one

\* Inputs of cyclotomic_square: sample elements, and their images in the
\* cyclotomic subgroup.
CyclotomicInputs ==
    {Seed(k) : k \in 1..NumSeeds} \cup
    {Fp12_pow(Seed(k), CofactorExponent) : k \in 1..NumSeeds}

\* Inputs of the sparse multiplications: self and the three coefficients.
SparseInputs ==
    {<<Seed(k), SeedFp2(m, 2), SeedFp2(m, 5), SeedFp2(m, 9)>> :
         k \in 1..NumSeeds, m \in 1..NumSeeds}

\* Largest low and high sample value of one limb.
MaxGateLimb == 9

GateLimbs ==
    (0..MaxGateLimb) \cup {Pow2(LimbBits) - 1 - k : k \in 0..MaxGateLimb}

\* Inputs of the characteristic gate: slices of zero, one and two limbs.
GateInputs ==
    {<<>>} \cup {<<l0>> : l0 \in GateLimbs} \cup (GateLimbs \X GateLimbs)

\* -------------------------------------------------------- tower operations

Pending(op, input) ==
    Result(op, 0, NA, NA, NA, input, "Pending", NA, FALSE, FALSE)

\* The start state draws one input of one operation, pending in res.
InitTower ==
    /\ MODULUS \in TowerModuli
    /\ fe = [i \in 1..2 |-> zero]
    /\ pc = "idle"
    /\ u = 0 /\ v = 0 /\ b = 0 /\ c = 0
    /\ ovf = FALSE
    /\ \/ res \in {Pending("cyclotomic_square", <<x>>) : x \in CyclotomicInputs}
       \/ res \in {Pending("mul_by_034", x) : x \in SparseInputs}
       \/ res \in {Pending("mul_by_014", x) : x \in SparseInputs}
       \/ res \in {Pending("characteristic_square_mod_6_is_one", <<x>>) : x \in GateInputs}

\* Fp12::cyclotomic_square(x)
CyclotomicSquare ==
    /\ Idle
    /\ res.op = "cyclotomic_square" /\ res.kind = "Pending"
    /\ res' = [res EXCEPT !.kind = "Val", !.val = cyclotomic_square(res.s[1])]
    /\ UNCHANGED fe
    /\ NoCall

\* Fp12::mul_by_034(self, c0, c3, c4)
MulBy034 ==
    /\ Idle
    /\ res.op = "mul_by_034" /\ res.kind = "Pending"
    /\ res' = [res EXCEPT !.kind = "Val",
                          !.val = mul_by_034(res.s[1], res.s[2], res.s[3], res.s[4])]
    /\ UNCHANGED fe
    /\ NoCall

\* Fp12::mul_by_014(self, c0, c1, c4)
MulBy014 ==
    /\ Idle
    /\ res.op = "mul_by_014" /\ res.kind = "Pending"
    /\ res' = [res EXCEPT !.kind = "Val",
                          !.val = mul_by_014(res.s[1], res.s[2], res.s[3], res.s[4])]
    /\ UNCHANGED fe
    /\ NoCall

\* characteristic_square_mod_6_is_one(characteristic): the value returned and
\* the accumulator it was computed from, or the panic of the index.
CharacteristicGate ==
    /\ Idle
    /\ res.op = "characteristic_square_mod_6_is_one" /\ res.kind = "Pending"
    /\ res' = IF index_panics(res.s[1])
              THEN [res EXCEPT !.kind = "Panic"]
              ELSE [res EXCEPT !.kind = "Val",
                               !.val = characteristic_square_mod_6_is_one(res.s[1]),
                               !.r = characteristic_mod_3(res.s[1])]
    /\ UNCHANGED fe
    /\ NoCall

NextTower ==
    \/ CyclotomicSquare
    \/ MulBy034
    \/ MulBy014
    \/ CharacteristicGate

SpecTower == InitTower /\ [][NextTower]_vars

\* C11: when the characteristic gate holds, cyclotomic_square(a) is the generic
\* square(a) for every a of the cyclotomic subgroup; when it does not hold,
\* for every a.
C11_CyclotomicSquare ==
    Returned("cyclotomic_square") =>
        LET a == res.s[1]
        IN  (characteristic_square_mod_6_is_one(characteristic) => InCyclotomicSubgroup(a))
                => res.val = Fp12_square(a)

C11_Witness ==
    /\ Returned("cyclotomic_square")
    /\ characteristic_square_mod_6_is_one(characteristic)
    /\ InCyclotomicSubgroup(res.s[1])
    /\ res.s[1] # Fp12_one
    /\ res.val = Fp12_square(res.s[1])
    /\ res.val # Fp12_one

\* ------------------------------------------------------ functions of Fp

\* $Fp::new: the element with the given raw value.
new(element) == element

is_one_raw(x) ==
    x = 1

\* is_one: self.0 == P::R
is_one(x) ==
    x = R

\* FpParameters::MODULUS_MINUS_ONE_DIV_TWO
MODULUS_MINUS_ONE_DIV_TWO == (MODULUS - 1) \div 2

\* Field::pow: square and multiply over the bits of the exponent, most
\* significant first.
RECURSIVE pow(_, _)
pow(x, e) ==
    IF e = 0 THEN one
    ELSE Only({IF e % 2 = 1 THEN mul_assign(mul_assign(h, h), xv) ELSE mul_assign(h, h) :
                   h \in {pow(x, e \div 2)}, xv \in {x}})

\* legendre: s = self^((MODULUS - 1) / 2), classified by is_zero and is_one.
legendre(x) ==
    Only({IF is_zero(s) THEN "Zero"
          ELSE IF is_one(s) THEN "QuadraticResidue"
          ELSE "QuadraticNonResidue" :
              s \in {pow(x, MODULUS_MINUS_ONE_DIV_TWO)}})

\* The character of a decimal digit.
digit_char(d) ==
    CHOOSE ch \in DigitChars : to_digit(ch) = d

\* Display of a BigInteger: its decimal digits.
RECURSIVE BigInteger_fmt(_)
BigInteger_fmt(n) ==
    IF n < 10 THEN <<digit_char(n)>>
    ELSE Append(BigInteger_fmt(n \div 10), digit_char(n % 10))

\* stringify!($Fp"({})"): the identifier $Fp, then the literal with its quotes.
FpName == <<"F", "p">>

\* Display::fmt: write!(f, stringify!($Fp"({})"), self.into_repr())
fmt(x) ==
    FpName \o <<" ", "\"", "(">> \o BigInteger_fmt(into_repr(x)) \o <<")", "\"">>

\* FpParameters::MODULUS_BITS and REPR_SHAVE_BITS: the bits of the backing
\* integer above the modulus's length.
MODULUS_BITS ==
    CHOOSE n \in 1..Width : Pow2(n - 1) <= MODULUS /\ MODULUS < Pow2(n)

REPR_SHAVE_BITS == Width - MODULUS_BITS

\* let mut result_bytes = [0u8; $limbs * 8], filled from the input by zip.
result_bytes(bytes) ==
    [k \in 1..NumBytes |-> IF k <= Len(bytes) THEN bytes[k] ELSE 0]

shave_none(n) ==
    n

\* res.as_mut()[$limbs-1] &= 0xffffffffffffffff >> P::REPR_SHAVE_BITS
shave(n) ==
    LET hi == Pow2(LimbBits * (limbs - 1))
    IN  (n % hi) + ((n \div hi) % Pow2(LimbBits - REPR_SHAVE_BITS)) * hi

\* from_random_bytes
from_random_bytes(bytes) ==
    LET big == BigInteger_read(result_bytes(bytes))
    IN  IF ~big.ok THEN [kind |-> "None", val |-> NA]
        ELSE LET result == new(shave(big.val))
             IN  IF is_valid(result) THEN [kind |-> "Some", val |-> result]
                 ELSE [kind |-> "None", val |-> NA]

\* Inputs: the valid elements, and byte strings of every length up to one more
\* than the buffer, with low and high values.
ValidElements == 0..(MODULUS - 1)

RandomBytes ==
    {SubSeq(to_bytes_le(r) \o <<1>>, 1, n) :
         r \in Reprs \cup {TwoW - 1 - q : q \in Reprs}, n \in 0..(NumBytes + 1)}

PendingOn(op, a) ==
    Result(op, 0, a, NA, NA, <<>>, "Pending", NA, FALSE, FALSE)

\* The start state draws one input of one function, pending in res.
InitFn ==
    /\ MODULUS \in Moduli
    /\ fe = [i \in 1..2 |-> zero]
    /\ pc = "idle"
    /\ u = 0 /\ v = 0 /\ b = 0 /\ c = 0
    /\ ovf = FALSE
    /\ \/ res \in {PendingOn("legendre", a) : a \in ValidElements}
       \/ res \in {PendingOn("to_string", a) : a \in ValidElements}
       \/ res \in {Pending("from_random_bytes", bytes) : bytes \in RandomBytes}

\* a.legendre()
Legendre ==
    /\ Idle
    /\ res.op = "legendre" /\ res.kind = "Pending"
    /\ res' = [res EXCEPT !.kind = "Val", !.val = legendre(res.self)]
    /\ UNCHANGED fe
    /\ NoCall

\* Fp::from_str(&a.to_string())
ToStringFromStr ==
    /\ Idle
    /\ res.op = "to_string" /\ res.kind = "Pending"
    /\ LET str == fmt(res.self)
           o   == from_str(str)
       IN  res' = [res EXCEPT !.s = str, !.kind = o.kind, !.val = o.val]
    /\ UNCHANGED fe
    /\ NoCall

\* Fp::from_random_bytes(bytes)
FromRandomBytes ==
    /\ Idle
    /\ res.op = "from_random_bytes" /\ res.kind = "Pending"
    /\ LET o == from_random_bytes(res.s)
       IN  res' = [res EXCEPT !.kind = o.kind, !.val = o.val]
    /\ UNCHANGED fe
    /\ NoCall

NextFn ==
    \/ Legendre
    \/ ToStringFromStr
    \/ FromRandomBytes

SpecFn == InitFn /\ [][NextFn]_vars

IsSquare(n) ==
    \E y \in 1..(MODULUS - 1) : (y * y) % MODULUS = n

RECURSIVE IntPowMod(_, _)
IntPowMod(n, e) ==
    IF e = 0 THEN 1 % MODULUS ELSE (n * IntPowMod(n, e - 1)) % MODULUS

\* C12: legendre(a) is Zero exactly for a = zero, QuadraticResidue exactly for
\* the nonzero squares (those with a^((MODULUS-1)/2) = 1), and
\* QuadraticNonResidue for every other valid element.
C12_Legendre ==
    Returned("legendre") =>
        LET a == res.self
            n == IntOf(a)
        IN  /\ res.val \in {"Zero", "QuadraticResidue", "QuadraticNonResidue"}
            /\ res.val = "Zero" <=> a = zero
            /\ res.val = "QuadraticResidue" <=> (n # 0 /\ IsSquare(n))
            /\ res.val = "QuadraticResidue" <=>
                   (n # 0 /\ IntPowMod(n, (MODULUS - 1) \div 2) = 1)
            /\ res.val = "QuadraticNonResidue" <=> (n # 0 /\ ~IsSquare(n))

C12_Witness ==
    /\ Returned("legendre")
    /\ MODULUS = 17
    /\ IntOf(res.self) = 3
    /\ res.val = "QuadraticNonResidue"

\* C13: the string round trip: for every valid element a,
\* from_str(to_string(a)) is Ok(a), to_string being the Display output.
C13_StringRoundTrip ==
    Returned("to_string") =>
        /\ res.kind = "Ok"
        /\ res.val = res.self

\* The integer below the top REPR_SHAVE_BITS bits of the zero-padded input.
PaddedValue(bytes) ==
    bytes_value(SubSeq(bytes, 1, IF Len(bytes) < NumBytes THEN Len(bytes) ELSE NumBytes), 1)

MaskedValue(bytes) ==
    PaddedValue(bytes) % Pow2(Width - REPR_SHAVE_BITS)

\* C14: from_random_bytes pads the input with zeros to 8 * N bytes (dropping
\* what is beyond), clears the top REPR_SHAVE_BITS bits, and returns Some of
\* the element with that masked raw value exactly when it is < MODULUS, else
\* None; a returned element is valid.
C14_FromRandomBytes ==
    Returned("from_random_bytes") =>
        LET masked == MaskedValue(res.s)
        IN  /\ res.kind \in {"Some", "None"}
            /\ res.kind = "Some" <=> masked < MODULUS
            /\ res.kind = "Some" => (res.val = masked /\ is_valid(res.val))
            /\ res.kind = "None" => res.val = NA

C14_Witness ==
    /\ Returned("from_random_bytes")
    /\ Len(res.s) = NumBytes + 1
    /\ PaddedValue(res.s) >= MODULUS
    /\ res.kind = "Some"
    /\ res.val # 0

\* ------------------------------------------------- the inversion loop alone

\* One element holds a nonzero valid value; inverse() is called on it and the
\* loop runs, a started call always taking its next step.
InitInverse ==
    /\ MODULUS \in Moduli
    /\ fe \in {[i \in 1..2 |-> IF i = 1 THEN a ELSE zero] : a \in ValidElements \ {zero}}
    /\ pc = "idle"
    /\ u = 0 /\ v = 0 /\ b = 0 /\ c = 0
    /\ ovf = FALSE
    /\ res = Result("init", 0, NA, NA, NA, <<>>, "Unit", NA, FALSE, FALSE)

InverseStep ==
    \/ InvWhile
    \/ InvHalveU
    \/ InvHalveV
    \/ InvSub
    \/ InvReturn

NextInverse ==
    \/ Inverse(1)
    \/ InverseStep

SpecInverse == InitInverse /\ [][NextInverse]_vars /\ WF_vars(InverseStep)

\* C15: the inversion loop ends for every nonzero valid input: from any point
\* of the loop the test `u != 1 && v != 1` is reached with u = 1 or v = 1, and
\* each inner halving loop is left.
C15_InverseTerminates ==
    /\ (pc \in {"while", "halve_u", "halve_v", "sub"}) ~> (pc = "while" /\ (u = 1 \/ v = 1))
    /\ (pc = "halve_u") ~> (pc = "halve_v")
    /\ (pc = "halve_v") ~> (pc = "sub")

C15_Witness ==
    /\ pc = "while"
    /\ res.op = "inverse" /\ res.kind = "Running"
    /\ res.self # one
    /\ MODULUS = 17
    /\ (u = 1 \/ v = 1)

\* The residue modulo 6 of the integer a slice of limbs encodes, least
\* significant limb first.
RECURSIVE LimbsValueMod6(_, _)
LimbsValueMod6(xs, k) ==
    IF k > Len(xs) THEN 0
    ELSE ((xs[k] % 6) * (Pow2(LimbBits * (k - 1)) % 6) + LimbsValueMod6(xs, k + 1)) % 6

NonresidueTimes(x) ==
    <<Fp2_mul(Fp6_NONRESIDUE, x[3]), x[1], x[2]>>

\* The dense tower product as the claim writes it:
\* c0' = a0 b0 + nonresidue (a1 b1), c1' = a0 b1 + a1 b0.
DenseProduct(x, y) ==
    <<Fp6_add(Fp6_mul(x[1], y[1]), NonresidueTimes(Fp6_mul(x[2], y[2]))),
      Fp6_add(Fp6_mul(x[1], y[2]), Fp6_mul(x[2], y[1]))>>

\* C17: mul_by_034(c0, c3, c4) leaves self times ((c0, 0, 0), (c3, c4, 0)) and
\* mul_by_014(c0, c1, c4) leaves self times ((c0, c1, 0), (0, c4, 0)), the
\* product being the dense one, with nonresidue multiplication
\* (x0, x1, x2) -> (fp2_nonresidue x2, x0, x1).
C17_SparseIsDense ==
    /\ Returned("mul_by_034") =>
           res.val = DenseProduct(res.s[1], <<<<res.s[2], Fp2_zero, Fp2_zero>>,
                                              <<res.s[3], res.s[4], Fp2_zero>>>>)
    /\ Returned("mul_by_014") =>
           res.val = DenseProduct(res.s[1], <<<<res.s[2], res.s[3], Fp2_zero>>,
                                              <<Fp2_zero, res.s[4], Fp2_zero>>>>)

C17_Witness ==
    /\ Returned("mul_by_034")
    /\ MODULUS = 7
    /\ \A k \in 2..4 : res.s[k] # Fp2_zero
    /\ res.val[1] # Fp6_zero
    /\ res.val[2] # Fp6_zero
    /\ res.val # res.s[1]

RECURSIVE GCD(_, _)
GCD(m, n) ==
    IF n = 0 THEN m ELSE GCD(n, m % n)

\* C18: while inverse() of a nonzero valid a is in its loop, u >= 1, v >= 1 and
\* gcd(u, v) = 1; the co-factors b and c are < MODULUS, so adding MODULUS to
\* an odd one does not overflow and gives an even value; and a b = u R^2,
\* a c = v R^2 modulo MODULUS, on the raw values.
C18_LoopInvariant ==
    (pc \in {"while", "halve_u", "halve_v", "sub"}) =>
        LET a == inverse_arg(res.op, res.self, res.other)
        IN  /\ a # 0 /\ is_valid(a)
            /\ u >= 1 /\ v >= 1
            /\ GCD(u, v) = 1
            /\ b < MODULUS /\ c < MODULUS
            /\ ~ovf
            /\ \A x \in {b, c} :
                   ~is_even(x) =>
                       /\ ~add_nocarry(x, MODULUS).carry
                       /\ is_even(add_nocarry(x, MODULUS).val)
                       /\ add_nocarry(x, MODULUS).val = x + MODULUS
            /\ (a * b) % MODULUS = (u * R * R) % MODULUS
            /\ (a * c) % MODULUS = (v * R * R) % MODULUS

C18_Witness ==
    /\ pc = "while"
    /\ res.op = "div"
    /\ MODULUS = 17
    /\ u > 1 /\ v > 1 /\ v < MODULUS
    /\ b # R2 /\ c # 0
    /\ ~is_even(b)

=============================================================================
